---- MODULE Spec2Model ----
(***************************************************************************)
(* A model of annica's diff engine: PathsDiff::from_paths (diff/paths.rs)  *)
(* and OperationDiff::from_operations / TagsDiff::from_tags                *)
(* (diff/operations.rs).  Both entry points are pure functions; a          *)
(* behaviour draws a pair of inputs (base, head) and then makes the call.  *)
(*                                                                         *)
(* Option<T> is a sequence of length at most one: None is <<>> and         *)
(* Some(x) is <<x>>.  Result<T, E> is a record with a field ok.            *)
(***************************************************************************)
EXTENDS Integers, Sequences, FiniteSets, TLC

VARIABLES pc, base, head, ret, base_operation, head_operation, diff

vars == <<pc, base, head, ret, base_operation, head_operation, diff>>

\* ------------------------------------------------------------------ bounds
MaxPaths == 2
MaxTags == 3

\* ------------------------------------------------------------ Option, Result
None == <<>>
Some(x) == <<x>>
is_some(o) == o # <<>>
unwrap(o) == o[1]

Ok(v) == [ok |-> TRUE, value |-> v]
Err(e) == [ok |-> FALSE, err |-> e]

SeqsUpTo(S, n) == UNION {[1..k -> S] : k \in 0..n}
Range(s) == {s[k] : k \in 1..Len(s)}

\* ------------------------------------------------------- OptionalStringDiff
\* common.rs: None when the two optional strings are equal, else {from, to}.
OptionalStringDiff_from_strings(from, to) ==
    IF from = to THEN None ELSE Some([from |-> from, to |-> to])

\* ----------------------------------------------------------- RequestBodyDiff
\* request_body.rs: a structural diff of two optional request bodies.
RequestBodyDiff_from_request_bodies(b, h) ==
    [added   |-> IF b = None /\ h # None THEN h ELSE None,
     removed |-> IF b # None /\ h = None THEN b ELSE None,
     changed |-> IF b # None /\ h # None /\ b # h
                 THEN Some([from |-> unwrap(b), to |-> unwrap(h)]) ELSE None]

RequestBodyDiff_has_changes(d) ==
    is_some(d.added) \/ is_some(d.removed) \/ is_some(d.changed)

\* ------------------------------------------------------------ ParametersDiff
\* parameters.rs: a keyed diff of two parameter lists, keyed by name+location.
ParamKey(p) == <<p.name, p.location>>
ParamKeys(ps) == {ParamKey(ps[k]) : k \in 1..Len(ps)}
ParamAt(ps, key) == CHOOSE p \in Range(ps) : ParamKey(p) = key

ParametersDiff_from_params(b, h) ==
    [added   |-> SelectSeq(h, LAMBDA p : ParamKey(p) \notin ParamKeys(b)),
     removed |-> SelectSeq(b, LAMBDA p : ParamKey(p) \notin ParamKeys(h)),
     changed |-> {key \in ParamKeys(b) \cap ParamKeys(h) : ParamAt(b, key) # ParamAt(h, key)}]

ParametersDiff_has_changes(d) ==
    d.added # <<>> \/ d.removed # <<>> \/ d.changed # {}

\* ------------------------------------------------------------------ TagsDiff
\* HashSet<_> = v.iter().collect(): the set of the values of v.
HashSetOf(v) == {v[k] : k \in 1..Len(v)}

\* v.iter().filter(|item| !set.contains(item)).map(clone).collect(): one
\* element at a time, in the order of v, keeping each element that passes.
RECURSIVE FilterNotIn(_, _)
FilterNotIn(v, set) ==
    IF v = <<>> THEN <<>>
    ELSE LET rest == FilterNotIn(Tail(v), set)
         IN  IF Head(v) \notin set THEN <<Head(v)>> \o rest ELSE rest

TagsDiff_from_tags_swapped(base_tags, head_tags) ==
    LET base_set == HashSetOf(base_tags)
        head_set == HashSetOf(head_tags)
    IN  [added   |-> FilterNotIn(base_tags, head_set),
         removed |-> FilterNotIn(head_tags, base_set)]

RECURSIVE Dedup(_)
Dedup(v) ==
    IF v = <<>> THEN <<>>
    ELSE LET front == Dedup(SubSeq(v, 1, Len(v) - 1))
         IN  IF v[Len(v)] \in HashSetOf(front) THEN front ELSE Append(front, v[Len(v)])

TagsDiff_from_tags_dedup(base_tags, head_tags) ==
    LET base_set == HashSetOf(base_tags)
        head_set == HashSetOf(head_tags)
    IN  [added   |-> Dedup(FilterNotIn(head_tags, base_set)),
         removed |-> Dedup(FilterNotIn(base_tags, head_set))]

TagsDiff_from_tags(base_tags, head_tags) ==
    LET base_set == HashSetOf(base_tags)
        added    == FilterNotIn(head_tags, base_set)
        head_set == HashSetOf(head_tags)
        removed  == FilterNotIn(base_tags, head_set)
    IN  [added |-> added, removed |-> removed]

TagsDiff_has_changes(d) == d.added # <<>> \/ d.removed # <<>>

\* ------------------------------------------------------------- OperationDiff
OperationDiff_has_changes_all(d) ==
    \/ TagsDiff_has_changes(d.tags)
    \/ is_some(d.summary)
    \/ is_some(d.description)
    \/ is_some(d.operation_id)
    \/ ParametersDiff_has_changes(d.parameters)
    \/ is_some(d.request_body)

OperationDiff_has_changes(d) ==
    \/ TagsDiff_has_changes(d.tags)
    \/ is_some(d.summary)
    \/ is_some(d.description)
    \/ is_some(d.operation_id)

OperationDiff_from_operations_crossed(b, h) ==
    LET tags_diff == TagsDiff_from_tags(b.tags, h.tags)
        summary_diff == OptionalStringDiff_from_strings(b.summary, h.summary)
        description_diff == OptionalStringDiff_from_strings(b.summary, h.summary)
        operation_id_diff == OptionalStringDiff_from_strings(b.operation_id, h.operation_id)
        parameters == ParametersDiff_from_params(b.parameters, h.parameters)
        request_body_diff == RequestBodyDiff_from_request_bodies(b.request_body, h.request_body)
        request_body == IF RequestBodyDiff_has_changes(request_body_diff)
                        THEN Some(request_body_diff) ELSE None
    IN  [tags |-> tags_diff, summary |-> summary_diff, description |-> description_diff,
         operation_id |-> operation_id_diff, parameters |-> parameters,
         request_body |-> request_body]

OperationDiff_from_operations(b, h) ==
    LET tags_diff == TagsDiff_from_tags(b.tags, h.tags)
        summary_diff == OptionalStringDiff_from_strings(b.summary, h.summary)
        description_diff == OptionalStringDiff_from_strings(b.description, h.description)
        operation_id_diff == OptionalStringDiff_from_strings(b.operation_id, h.operation_id)
        parameters == ParametersDiff_from_params(b.parameters, h.parameters)
        request_body_diff == RequestBodyDiff_from_request_bodies(b.request_body, h.request_body)
        request_body == IF RequestBodyDiff_has_changes(request_body_diff)
                        THEN Some(request_body_diff) ELSE None
    IN  [tags |-> tags_diff, summary |-> summary_diff, description |-> description_diff,
         operation_id |-> operation_id_diff, parameters |-> parameters,
         request_body |-> request_body]

\* --------------------------------------------------------------- PathItemDiff
\* path_items.rs: per HTTP method, the operation added, removed or changed;
\* a path item that is a reference cannot be compared and gives DiffError.
Methods == <<"get", "post">>

PathItemDiff_from_path_items(b, h) ==
    IF b.kind = "Reference" \/ h.kind = "Reference" THEN Err("DiffError")
    ELSE LET bi == b.item
             hi == h.item
         IN  Ok([operations_added |->
                    SelectSeq(Methods, LAMBDA m : bi[m] = None /\ hi[m] # None),
                 operations_removed |->
                    SelectSeq(Methods, LAMBDA m : bi[m] # None /\ hi[m] = None),
                 operations_changed |->
                    LET both == {m \in Range(Methods) :
                                    /\ bi[m] # None /\ hi[m] # None
                                    /\ OperationDiff_has_changes(
                                         OperationDiff_from_operations(unwrap(bi[m]), unwrap(hi[m])))}
                    IN  [m \in both |->
                            OperationDiff_from_operations(unwrap(bi[m]), unwrap(hi[m]))]])

PathItemDiff_has_change(d) ==
    \/ d.operations_added # <<>>
    \/ d.operations_removed # <<>>
    \/ DOMAIN d.operations_changed # {}

\* ------------------------------------------------------------------ PathsDiff
\* Paths is a map from path to ReferenceOr<PathItem>: the sequence of its
\* (path, item) pairs in iteration order, with pairwise distinct paths.
Keys(paths) == {paths[k][1] : k \in 1..Len(paths)}

\* paths.get(path): Some(item) or None
Paths_get(paths, path) ==
    IF \E k \in 1..Len(paths) : paths[k][1] = path
    THEN Some(paths[CHOOSE k \in 1..Len(paths) : paths[k][1] = path][2])
    ELSE None

\* HashMap::new() and HashMap::insert
HashMap_new == [k \in {} |-> None]
HashMap_insert(m, key, v) == [k \in DOMAIN m \cup {key} |-> IF k = key THEN v ELSE m[k]]

PathsDiff_has_changes(d) ==
    d.added # <<>> \/ d.removed # <<>> \/ DOMAIN d.changed # {}

\* BaseStep inserting every successful sub-diff, has_change() or not
BaseStep_insert_always(s, head_paths, path, path_item) ==
    LET found == Paths_get(head_paths, path)
    IN  IF is_some(found)
        THEN LET path_item_diff == PathItemDiff_from_path_items(path_item, unwrap(found))
                 called == [s EXCEPT !.calls = Append(@, path)]
             IN  IF ~path_item_diff.ok
                 THEN [called EXCEPT !.err = Some(path_item_diff.err)]
                 ELSE [called EXCEPT !.paths_changed =
                                HashMap_insert(@, path, path_item_diff.value)]
        ELSE [s EXCEPT !.paths_removed = Append(@, <<path, path_item>>)]

\* BaseStep taking "the two items differ" for has_change()
BaseStep_insert_if_unequal(s, head_paths, path, path_item) ==
    LET found == Paths_get(head_paths, path)
    IN  IF is_some(found)
        THEN LET path_item_diff == PathItemDiff_from_path_items(path_item, unwrap(found))
                 called == [s EXCEPT !.calls = Append(@, path)]
             IN  IF ~path_item_diff.ok
                 THEN [called EXCEPT !.err = Some(path_item_diff.err)]
                 ELSE IF path_item # unwrap(found)
                      THEN [called EXCEPT !.paths_changed =
                                HashMap_insert(@, path, path_item_diff.value)]
                      ELSE called
        ELSE [s EXCEPT !.paths_removed = Append(@, <<path, path_item>>)]

\* One iteration of `for (path, path_item) in base`, on the locals s.  The
\* field err holds the error the ? operator returns with; calls lists the
\* paths from_path_items was called for.
BaseStep(s, head_paths, path, path_item) ==
    LET found == Paths_get(head_paths, path)
    IN  IF is_some(found)
        THEN LET path_item_diff == PathItemDiff_from_path_items(path_item, unwrap(found))
                 called == [s EXCEPT !.calls = Append(@, path)]
             IN  IF ~path_item_diff.ok
                 THEN [called EXCEPT !.err = Some(path_item_diff.err)]
                 ELSE IF PathItemDiff_has_change(path_item_diff.value)
                      THEN [called EXCEPT !.paths_changed =
                                HashMap_insert(@, path, path_item_diff.value)]
                      ELSE called
        ELSE [s EXCEPT !.paths_removed = Append(@, <<path, path_item>>)]

\* BaseLoop going on after an error instead of returning
RECURSIVE BaseLoop_no_return(_, _, _)
BaseLoop_no_return(base_paths, head_paths, n) ==
    IF n = 0
    THEN [paths_removed |-> <<>>, paths_changed |-> HashMap_new,
          calls |-> <<>>, err |-> None]
    ELSE BaseStep(BaseLoop_no_return(base_paths, head_paths, n - 1),
                  head_paths, base_paths[n][1], base_paths[n][2])

\* The locals after the first n iterations of the loop over base; the loop
\* is left at the first error.
RECURSIVE BaseLoop(_, _, _)
BaseLoop(base_paths, head_paths, n) ==
    IF n = 0
    THEN [paths_removed |-> <<>>, paths_changed |-> HashMap_new,
          calls |-> <<>>, err |-> None]
    ELSE LET s == BaseLoop(base_paths, head_paths, n - 1)
         IN  IF is_some(s.err) THEN s
             ELSE BaseStep(s, head_paths, base_paths[n][1], base_paths[n][2])

\* HeadStep pushing the entry in both arms of the match
HeadStep_push_always(s, base_paths, path, path_item) ==
    [s EXCEPT !.head_visited = Append(@, path),
              !.paths_added = Append(@, <<path, path_item>>)]

\* One iteration of `for (path, path_item) in head`.
HeadStep(s, base_paths, path, path_item) ==
    LET visited == [s EXCEPT !.head_visited = Append(@, path)]
    IN  IF is_some(Paths_get(base_paths, path))
        THEN visited
        ELSE [visited EXCEPT !.paths_added = Append(@, <<path, path_item>>)]

RECURSIVE HeadLoop(_, _, _)
HeadLoop(base_paths, head_paths, n) ==
    IF n = 0
    THEN [paths_added |-> <<>>, head_visited |-> <<>>]
    ELSE HeadStep(HeadLoop(base_paths, head_paths, n - 1), base_paths,
                  head_paths[n][1], head_paths[n][2])

\* from_paths building the PathsDiff with added and removed exchanged
PathsDiff_from_paths_exchanged(base_paths, head_paths) ==
    LET s == BaseLoop(base_paths, head_paths, Len(base_paths))
    IN  IF is_some(s.err)
        THEN [result |-> Err(unwrap(s.err)), calls |-> s.calls, head_visited |-> <<>>]
        ELSE LET t == HeadLoop(base_paths, head_paths, Len(head_paths))
             IN  [result |-> Ok([added   |-> s.paths_removed,
                                 removed |-> t.paths_added,
                                 changed |-> s.paths_changed]),
                  calls |-> s.calls, head_visited |-> t.head_visited]

\* PathsDiff::from_paths.  Beside the Result, the record tells which
\* from_path_items calls were made and which head entries the second loop
\* visited.
PathsDiff_from_paths(base_paths, head_paths) ==
    LET s == BaseLoop(base_paths, head_paths, Len(base_paths))
    IN  IF is_some(s.err)
        THEN [result |-> Err(unwrap(s.err)), calls |-> s.calls, head_visited |-> <<>>]
        ELSE LET t == HeadLoop(base_paths, head_paths, Len(head_paths))
             IN  [result |-> Ok([added   |-> t.paths_added,
                                 removed |-> s.paths_removed,
                                 changed |-> s.paths_changed]),
                  calls |-> s.calls, head_visited |-> t.head_visited]

\* -------------------------------------------------------------------- inputs
DefaultOperation ==
    [tags |-> <<>>, summary |-> None, description |-> None, operation_id |-> None,
     parameters |-> <<>>, request_body |-> None]

Tags == {"Cats", "Dogs", "Fish"}
TextValues == {None, Some("Creates a cat."), Some("Creates a feline.")}
OperationIdValues == {None, Some("cats-create"), Some("cats/create")}
ParameterValues == {<<>>, <<[name |-> "id", location |-> "query", required |-> FALSE]>>}
RequestBodyValues == {None, Some([description |-> "a cat", required |-> TRUE])}

\* operations that differ in their tags only
TagOperations == {[DefaultOperation EXCEPT !.tags = t] : t \in SeqsUpTo(Tags, MaxTags)}

\* operations that differ in every field
FieldOperations ==
    [tags : {<<>>, <<"Cats">>}, summary : TextValues, description : TextValues,
     operation_id : OperationIdValues, parameters : ParameterValues,
     request_body : RequestBodyValues]

DefaultPathItem == [get |-> None, post |-> None]
Item(i) == [kind |-> "Item", item |-> i]
Reference(r) == [kind |-> "Reference", reference |-> r]

CatsCreate == [DefaultOperation EXCEPT !.operation_id = Some("cats-create")]
CatsCreateWithBody ==
    [CatsCreate EXCEPT !.request_body = Some([description |-> "a cat", required |-> TRUE])]

PathItemValues ==
    {Reference("#/components/pathItems/cats"),
     Item(DefaultPathItem),
     Item([DefaultPathItem EXCEPT !.get = Some(CatsCreate)]),
     Item([DefaultPathItem EXCEPT !.get = Some(CatsCreateWithBody)])}

PathKeys == {"/cats", "/dogs", "/fish"}

PathsValues ==
    {t \in SeqsUpTo(PathKeys \X PathItemValues, MaxPaths) :
        \A j, k \in 1..Len(t) : t[j][1] = t[k][1] => j = k}

\* ------------------------------------------------------------- state machine
InitPaths ==
    /\ pc = "from_paths"
    /\ base \in PathsValues
    /\ head \in PathsValues
    /\ ret = None
    /\ base_operation = DefaultOperation
    /\ head_operation = DefaultOperation
    /\ diff = None

InitOperations ==
    /\ pc = "from_operations"
    /\ base = <<>>
    /\ head = <<>>
    /\ ret = None
    /\ \/ base_operation \in TagOperations /\ head_operation \in TagOperations
       \/ base_operation \in FieldOperations /\ head_operation \in FieldOperations
    /\ diff = None

Init == InitPaths \/ InitOperations

\* let diff = PathsDiff::from_paths(&base, &head)
CallFromPaths ==
    /\ pc = "from_paths"
    /\ ret' = Some(PathsDiff_from_paths(base, head))
    /\ pc' = "done"
    /\ UNCHANGED <<base, head, base_operation, head_operation, diff>>

\* let diff = OperationDiff::from_operations(&base_operation, &head_operation)
CallFromOperations ==
    /\ pc = "from_operations"
    /\ diff' = Some(OperationDiff_from_operations(base_operation, head_operation))
    /\ pc' = "done"
    /\ UNCHANGED <<base, head, ret, base_operation, head_operation>>

Next == CallFromPaths \/ CallFromOperations

Spec == Init /\ [][Next]_vars

\* -------------------------------------------------------------- properties
PathsReturned == is_some(ret)
PathsOk == is_some(ret) /\ unwrap(ret).result.ok
PathsErr == is_some(ret) /\ ~unwrap(ret).result.ok
PathsDiffValue == unwrap(ret).result.value
OperationDiffValue == unwrap(diff)

AllKeys == Keys(base) \cup Keys(head)
SharedKeys == Keys(base) \cap Keys(head)
BaseItem(k) == unwrap(Paths_get(base, k))
HeadItem(k) == unwrap(Paths_get(head, k))
SubDiff(k) == PathItemDiff_from_path_items(BaseItem(k), HeadItem(k))
SubDiffChanged(k) == SubDiff(k).ok /\ PathItemDiff_has_change(SubDiff(k).value)
PairKeys(pairs) == {pairs[j][1] : j \in 1..Len(pairs)}
Count(v, s) == Cardinality({j \in 1..Len(s) : s[j] = v})

\* C1: a successful from_paths puts into removed exactly the (key, base item)
\* entries of base whose key head lacks, in base order, and into added exactly
\* the (key, head item) entries of head whose key base lacks, in head order; a
\* single path on one side only gives one entry there and nothing else.
C1_AddedRemovedExact ==
    PathsOk =>
        /\ PathsDiffValue.removed = SelectSeq(base, LAMBDA e : e[1] \notin Keys(head))
        /\ PathsDiffValue.added = SelectSeq(head, LAMBDA e : e[1] \notin Keys(base))
        /\ (base = <<>> /\ Len(head) = 1) =>
                /\ PathsDiffValue.added = head
                /\ PathsDiffValue.removed = <<>>
                /\ DOMAIN PathsDiffValue.changed = {}
        /\ (head = <<>> /\ Len(base) = 1) =>
                /\ PathsDiffValue.removed = base
                /\ PathsDiffValue.added = <<>>
                /\ DOMAIN PathsDiffValue.changed = {}

C1_Witness ==
    /\ PathsOk
    /\ Len(PathsDiffValue.removed) = 2
    /\ Len(PathsDiffValue.added) = 1
    /\ PathsDiffValue.removed[1][2] # PathsDiffValue.removed[2][2]

\* C2: in a successful result a key is in changed exactly when both tables
\* hold it and the sub-diff of its two items succeeded and has_change(); the
\* value stored is that sub-diff; a shared key without change is in no partition.
C2_ChangedIffSubDiffChanged ==
    PathsOk =>
        /\ DOMAIN PathsDiffValue.changed \subseteq AllKeys
        /\ \A k \in AllKeys :
            /\ k \in DOMAIN PathsDiffValue.changed <=> (k \in SharedKeys /\ SubDiffChanged(k))
            /\ k \in DOMAIN PathsDiffValue.changed =>
                    PathsDiffValue.changed[k] = SubDiff(k).value
            /\ (k \in SharedKeys /\ ~SubDiffChanged(k)) =>
                    /\ k \notin PairKeys(PathsDiffValue.added)
                    /\ k \notin PairKeys(PathsDiffValue.removed)
                    /\ k \notin DOMAIN PathsDiffValue.changed

C2_Witness ==
    /\ PathsOk
    /\ \E k, j \in SharedKeys :
        /\ k \in DOMAIN PathsDiffValue.changed
        /\ j \notin DOMAIN PathsDiffValue.changed
        /\ BaseItem(j) # HeadItem(j)

\* the keys of base, in base order, for which from_path_items fails
FailingIndexes == {n \in 1..Len(base) : base[n][1] \in Keys(head) /\ ~SubDiff(base[n][1]).ok}
FirstFailing == CHOOSE n \in FailingIndexes : \A m \in FailingIndexes : n <= m

\* C3: from_paths returns Err exactly when from_path_items fails for some
\* shared key; the error is that of the first such key in base order, no
\* sub-diff is computed after it, the loop over head does not run and no
\* PathsDiff is returned; keys on one side only never cause an error.
C3_ErrIffSharedSubDiffFails ==
    PathsReturned =>
        /\ PathsErr <=> FailingIndexes # {}
        /\ PathsErr =>
            /\ unwrap(ret).result.err = SubDiff(base[FirstFailing][1]).err
            /\ unwrap(ret).calls =
                 SelectSeq([n \in 1..FirstFailing |-> base[n][1]],
                           LAMBDA k : k \in Keys(head))
            /\ unwrap(ret).head_visited = <<>>
            /\ "value" \notin DOMAIN unwrap(ret).result
        /\ (\A k \in SharedKeys : SubDiff(k).ok) => PathsOk

C3_Witness ==
    /\ PathsErr
    /\ Len(base) = 2
    /\ Keys(base) = Keys(head)
    /\ FirstFailing = 1
    /\ unwrap(ret).calls = <<base[1][1]>>
    /\ head[1][1] = base[2][1]

\* C4: in a successful result the key sets of added, removed and changed are
\* pairwise disjoint, and no key occurs twice in added or twice in removed.
C4_PartitionsDisjoint ==
    PathsOk =>
        LET a == PathsDiffValue.added
            r == PathsDiffValue.removed
            c == DOMAIN PathsDiffValue.changed
        IN  /\ PairKeys(a) \cap PairKeys(r) = {}
            /\ PairKeys(a) \cap c = {}
            /\ PairKeys(r) \cap c = {}
            /\ \A j, k \in 1..Len(a) : a[j][1] = a[k][1] => j = k
            /\ \A j, k \in 1..Len(r) : r[j][1] = r[k][1] => j = k

C4_Witness ==
    /\ PathsOk
    /\ PathsDiffValue.added # <<>>
    /\ PathsDiffValue.removed # <<>>
    /\ DOMAIN PathsDiffValue.changed # {}

\* C5: from_tags gives added = the elements of head whose value base lacks, in
\* head order, removed = the elements of base whose value head lacks, in base
\* order; has_changes() is true exactly when one of them is non-empty; and
\* [Cats, Dogs] -> [Cats, Fish] gives added = [Fish], removed = [Dogs].
C5_TagsAddedRemoved ==
    is_some(diff) =>
        LET b == base_operation.tags
            h == head_operation.tags
            d == OperationDiffValue.tags
        IN  /\ d.added = SelectSeq(h, LAMBDA t : \A j \in 1..Len(b) : b[j] # t)
            /\ d.removed = SelectSeq(b, LAMBDA t : \A j \in 1..Len(h) : h[j] # t)
            /\ \A t \in Range(b) \cap Range(h) : t \notin Range(d.added) \cup Range(d.removed)
            /\ TagsDiff_has_changes(d) <=> (Len(d.added) > 0 \/ Len(d.removed) > 0)
            /\ (b = <<"Cats", "Dogs">> /\ h = <<"Cats", "Fish">>) =>
                    (d.added = <<"Fish">> /\ d.removed = <<"Dogs">>)

C5_Witness ==
    /\ is_some(diff)
    /\ base_operation.tags = <<"Cats", "Dogs">>
    /\ head_operation.tags = <<"Cats", "Fish">>
    /\ TagsDiff_has_changes(OperationDiffValue.tags)

FieldDiffExact(x, y, d) ==
    /\ d = None <=> x = y
    /\ d # None => (unwrap(d).from = x /\ unwrap(d).to = y)

\* C6: each of summary, description and operation_id of the OperationDiff is
\* None exactly when base and head agree on that field, and otherwise Some
\* with from = the base value and to = the head value, whatever the other
\* fields hold.
C6_ScalarFieldsIndependent ==
    is_some(diff) =>
        /\ FieldDiffExact(base_operation.summary, head_operation.summary,
                          OperationDiffValue.summary)
        /\ FieldDiffExact(base_operation.description, head_operation.description,
                          OperationDiffValue.description)
        /\ FieldDiffExact(base_operation.operation_id, head_operation.operation_id,
                          OperationDiffValue.operation_id)

C6_Witness ==
    /\ is_some(diff)
    /\ base_operation.summary = Some("Creates a cat.")
    /\ head_operation.summary = Some("Creates a feline.")
    /\ base_operation.description = Some("Creates a cat.")
    /\ head_operation.description = Some("Creates a cat.")
    /\ base_operation.operation_id = None
    /\ head_operation.operation_id = Some("cats/create")
    /\ OperationDiffValue.description = None
    /\ is_some(OperationDiffValue.summary)
    /\ is_some(OperationDiffValue.operation_id)

\* C7: has_changes() of an OperationDiff is true exactly when its tags diff
\* has changes or one of summary, description, operation_id is Some; operations
\* that differ only in parameters or request body give has_changes() = FALSE.
C7_HasChangesIgnoresParametersAndBody ==
    is_some(diff) =>
        LET d == OperationDiffValue
        IN  /\ OperationDiff_has_changes(d) <=>
                    \/ d.tags.added # <<>> \/ d.tags.removed # <<>>
                    \/ d.summary # None \/ d.description # None \/ d.operation_id # None
            /\ ( /\ base_operation.tags = head_operation.tags
                 /\ base_operation.summary = head_operation.summary
                 /\ base_operation.description = head_operation.description
                 /\ base_operation.operation_id = head_operation.operation_id )
               => ~OperationDiff_has_changes(d)

C7_Witness ==
    /\ is_some(diff)
    /\ base_operation # head_operation
    /\ is_some(OperationDiffValue.request_body)
    /\ ParametersDiff_has_changes(OperationDiffValue.parameters)
    /\ ~OperationDiff_has_changes(OperationDiffValue)

\* C8: diffing an input against itself reports nothing: a successful
\* from_paths(x, x) has empty added, removed and changed; from_operations(x, x)
\* has empty tag lists, no scalar diff, no request body diff and
\* has_changes() = FALSE; a shared key with identical items is never in changed.
C8_Reflexive ==
    /\ (PathsOk /\ base = head) =>
            /\ PathsDiffValue.added = <<>>
            /\ PathsDiffValue.removed = <<>>
            /\ DOMAIN PathsDiffValue.changed = {}
            /\ ~PathsDiff_has_changes(PathsDiffValue)
    /\ PathsOk =>
            \A k \in SharedKeys :
                BaseItem(k) = HeadItem(k) => k \notin DOMAIN PathsDiffValue.changed
    /\ (is_some(diff) /\ base_operation = head_operation) =>
            /\ OperationDiffValue.tags.added = <<>>
            /\ OperationDiffValue.tags.removed = <<>>
            /\ OperationDiffValue.summary = None
            /\ OperationDiffValue.description = None
            /\ OperationDiffValue.operation_id = None
            /\ OperationDiffValue.request_body = None
            /\ ~OperationDiff_has_changes(OperationDiffValue)

C8_Witness ==
    /\ PathsOk
    /\ base = head
    /\ Len(base) = 2
    /\ PathsDiffValue.changed = HashMap_new
    /\ \E k \in SharedKeys :
        /\ BaseItem(k).kind = "Item"
        /\ BaseItem(k).item.get # None
        /\ unwrap(BaseItem(k).item.get).request_body # None

InPartitions(k) ==
    (IF k \in PairKeys(PathsDiffValue.added) THEN 1 ELSE 0)
    + (IF k \in PairKeys(PathsDiffValue.removed) THEN 1 ELSE 0)
    + (IF k \in DOMAIN PathsDiffValue.changed THEN 1 ELSE 0)

\* C9 as stated: every key of base or head is in exactly one of added,
\* removed, changed.
C9_Exhaustive ==
    PathsOk => \A k \in AllKeys : InPartitions(k) = 1

\* C9: every key of base or head is in at most one of added, removed and
\* changed, and it is in none of them exactly when both tables hold it and
\* the sub-diff of its two items reports no change.
C9_ExhaustiveButUnchanged ==
    PathsOk =>
        \A k \in AllKeys :
            /\ InPartitions(k) <= 1
            /\ InPartitions(k) = 0 <=> (k \in SharedKeys /\ ~SubDiffChanged(k))

C9_Witness ==
    /\ PathsOk
    /\ \E k \in SharedKeys, j \in AllKeys :
        /\ InPartitions(k) = 0
        /\ BaseItem(k) # HeadItem(k)
        /\ InPartitions(j) = 1

\* C10 as stated: each value occurs at most once in added and at most once
\* in removed.
C10_NoRepeatedValue ==
    is_some(diff) =>
        \A t \in Tags :
            /\ Count(t, OperationDiffValue.tags.added) <= 1
            /\ Count(t, OperationDiffValue.tags.removed) <= 1

\* C10: the membership test is made per element: a value that base lacks
\* occurs in added as many times as it occurs in head, a value that head
\* lacks occurs in removed as many times as it occurs in base, and no other
\* value occurs in either list.
C10_RepeatsKept ==
    is_some(diff) =>
        LET b == base_operation.tags
            h == head_operation.tags
            d == OperationDiffValue.tags
        IN  \A t \in Tags :
                /\ Count(t, d.added) = (IF Count(t, b) = 0 THEN Count(t, h) ELSE 0)
                /\ Count(t, d.removed) = (IF Count(t, h) = 0 THEN Count(t, b) ELSE 0)

C10_Witness ==
    /\ is_some(diff)
    /\ \E t \in Tags :
        /\ Count(t, head_operation.tags) = 2
        /\ Count(t, OperationDiffValue.tags.added) = 2
        /\ Len(OperationDiffValue.tags.added) = 3

====
